---- MODULE Spec2Model ----
(***************************************************************************)
(* State-machine model of the AI study companion backend (src/main.py):    *)
(* the document store DOCUMENTS, the conversation log CHAT_HISTORY and the *)
(* request handlers list_files, clear_history, clear_all, delete_file,     *)
(* upload_pdf and ask_ai.                                                  *)
(*                                                                         *)
(* A Python str is modelled as a sequence of one-character strings, so     *)
(* that lower(), strip(), endswith(), join(), slicing and quote() are      *)
(* computed character by character.  A fixed literal of the source that    *)
(* is only ever copied (a message template, the rules of the system        *)
(* prompt, the image service's base URL) is one element of such a          *)
(* sequence.  A Python dict is a sequence of [key, text] entries in        *)
(* insertion order.                                                        *)
(***************************************************************************)
EXTENDS Integers, Sequences, FiniteSets, TLC

VARIABLES
    DOCUMENTS,     \* dict: lower-cased filename -> extracted text (main.py:35)
    CHAT_HISTORY,  \* list of {"role", "content"} turns (main.py:36)
    pc,            \* position of the ask_ai request: "idle" or "calling"
                   \* (inside client.chat.completions.create, main.py:198);
                   \* in SpecOverlap, the position and the locals of each of
                   \* two ask_ai requests
    response,      \* the value returned by the last finished request
    appended,      \* history: the dialogue turns appended to CHAT_HISTORY
                   \* since it was last set to [] (main.py:192, 206)
    uploaded       \* history: the lower-cased filenames stored by upload_pdf
                   \* since DOCUMENTS was last set to {} (main.py:137)

vars == <<DOCUMENTS, CHAT_HISTORY, pc, response, appended, uploaded>>

----------------------------------------------------------------------------
(* Bounds of the model *)

\* an ask_ai request is accepted while fewer than MaxTurns dialogue turns
\* have been appended since the log was last emptied (specification Spec)
MaxTurns == 2
\* the same, for the specification SpecLong that runs past the trim limit
MaxTurnsLong == 24
\* the most files in one upload batch
MaxBatch == 2
\* the most asks answered before two asks overlap (specification SpecOverlap)
MaxStartAsks == 10
\* the most documents in a store of the specification SpecMaterial
MaxDocs == 3
\* lengths of the long document texts of the specification SpecMaterial
LongLen == 5999
HugeLen == 12001

----------------------------------------------------------------------------
(* Program constants *)

MAX_FILE_SIZE == 10 * 1024 * 1024
\* "\n\n".join(DOCUMENTS.values())[:12000]
MaterialLimit == 12000
\* if len(CHAT_HISTORY) > 21
TrimThreshold == 21
\* CHAT_HISTORY[-20:]
KeepLast == 20

----------------------------------------------------------------------------
(* Python str operations on sequences of characters *)

Min(a, b) == IF a < b THEN a ELSE b
Max(a, b) == IF a > b THEN a ELSE b

UpperCase == <<"A","B","C","D","E","F","G","H","I","J","K","L","M",
               "N","O","P","Q","R","S","T","U","V","W","X","Y","Z">>
LowerCase == <<"a","b","c","d","e","f","g","h","i","j","k","l","m",
               "n","o","p","q","r","s","t","u","v","w","x","y","z">>
Digits == <<"0","1","2","3","4","5","6","7","8","9">>
Whitespace == {" ", "\n", "\t", "\r", "\f"}

\* the lower-case letter of each upper-case letter
LowerOf == [c \in {UpperCase[i] : i \in 1..26} |->
               LowerCase[CHOOSE i \in 1..26 : UpperCase[i] = c]]
LowerChar(c) == IF c \in DOMAIN LowerOf THEN LowerOf[c] ELSE c

\* str.lower()
lower(s) == [i \in 1..Len(s) |-> LowerChar(s[i])]

\* str.endswith(suffix)
endswith(s, suffix) ==
    /\ Len(s) >= Len(suffix)
    /\ SubSeq(s, Len(s) - Len(suffix) + 1, Len(s)) = suffix

\* str.strip(): without its leading and trailing whitespace
strip(s) ==
    LET keep == {i \in 1..Len(s) : s[i] \notin Whitespace}
    IN  IF keep = {} THEN <<>>
        ELSE SubSeq(s, CHOOSE i \in keep : \A j \in keep : i <= j,
                       CHOOSE i \in keep : \A j \in keep : i >= j)

\* phrase in s
Contains(s, phrase) ==
    \E i \in 1..(Len(s) - Len(phrase) + 1) : SubSeq(s, i, i + Len(phrase) - 1) = phrase

\* s[:n]
SliceTo(s, n) == SubSeq(s, 1, Min(n, Len(s)))

\* s[-n:]
SliceLast(s, n) == SubSeq(s, Max(1, Len(s) - n + 1), Len(s))

\* sep.join(parts)
RECURSIVE join(_, _)
join(sep, parts) ==
    IF parts = <<>> THEN <<>>
    ELSE IF Len(parts) = 1 THEN parts[1]
    ELSE parts[1] \o sep \o join(sep, Tail(parts))

\* str(n) for n >= 0
RECURSIVE str(_)
str(n) == IF n < 10 THEN <<Digits[n + 1]>> ELSE str(n \div 10) \o <<Digits[(n % 10) + 1]>>

\* urllib.parse.quote(s): letters, digits and "_.-~/" are kept, every other
\* character becomes "%XX"; the table covers the other characters in use
QuoteSafe ==
    {UpperCase[i] : i \in 1..26} \cup {LowerCase[i] : i \in 1..26}
        \cup {Digits[i] : i \in 1..10} \cup {"_", ".", "-", "~", "/"}
QuoteHex(c) ==
    CASE c = " "  -> <<"2", "0">>
      [] c = "\n" -> <<"0", "A">>
      [] c = "?"  -> <<"3", "F">>
      [] c = "%"  -> <<"2", "5">>
      [] c = "!"  -> <<"2", "1">>
RECURSIVE quote(_)
quote(s) ==
    IF s = <<>> THEN <<>>
    ELSE (IF Head(s) \in QuoteSafe THEN <<Head(s)>> ELSE <<"%">> \o QuoteHex(Head(s)))
             \o quote(Tail(s))

----------------------------------------------------------------------------
(* Python dict operations on sequences of [key, text] entries *)

DictKeys(d) == [i \in 1..Len(d) |-> d[i].key]
DictValues(d) == [i \in 1..Len(d) |-> d[i].text]
DictHas(d, k) == \E i \in 1..Len(d) : d[i].key = k
DictGet(d, k) == d[CHOOSE i \in 1..Len(d) : d[i].key = k].text

\* a slip in the store: a list of entries that is appended to on every upload
DictSetAppends(d, k, v) == Append(d, [key |-> k, text |-> v])

\* d[k] = v : an existing key keeps its place, a new key goes last
DictSet(d, k, v) ==
    IF DictHas(d, k)
    THEN [i \in 1..Len(d) |-> IF d[i].key = k THEN [key |-> k, text |-> v] ELSE d[i]]
    ELSE Append(d, [key |-> k, text |-> v])

\* del d[k]
DictDel(d, k) == SelectSeq(d, LAMBDA e : e.key # k)

----------------------------------------------------------------------------
(* Conversation turns and the system prompt *)

Turn(role, content) == [role |-> role, content |-> content]

\* the text of the f-string before and after {combined_text}
PromptRules == "You are a smart, confident AI Study Companion. Rules: ... Study Material:"
PromptEnd == "\n"

\* system_prompt = f"""...{combined_text}..."""
SystemPrompt(combined_text) == <<PromptRules>> \o combined_text \o <<PromptEnd>>

\* the {combined_text} part of a system prompt
StudyMaterialOf(prompt) == SubSeq(prompt, 2, Len(prompt) - 1)

\* a slip in the context assembly: the joined text is not cut
CombinedTextUncut(docs) ==
    IF docs # <<>>
    THEN join(<<"\n", "\n">>, DictValues(docs))
    ELSE <<>>

\* "\n\n".join(DOCUMENTS.values())[:12000] if DOCUMENTS else ""
CombinedText(docs) ==
    IF docs # <<>>
    THEN SliceTo(join(<<"\n", "\n">>, DictValues(docs)), MaterialLimit)
    ELSE <<>>

\* a slip in the upsert: the system turn is only written into an empty log
UpsertSystemOnce(history, prompt) ==
    IF history = <<>>
    THEN Append(history, Turn("system", prompt))
    ELSE history

\* if not CHAT_HISTORY: append the system turn, else: CHAT_HISTORY[0] = it
UpsertSystem(history, prompt) ==
    IF history = <<>>
    THEN Append(history, Turn("system", prompt))
    ELSE [history EXCEPT ![1] = Turn("system", prompt)]

\* a slip in the trim: CHAT_HISTORY = CHAT_HISTORY[-21:], which drops the system turn
TrimHistoryDropsSystem(history) ==
    IF Len(history) > TrimThreshold
    THEN SliceLast(history, KeepLast + 1)
    ELSE history

\* if len(CHAT_HISTORY) > 21: CHAT_HISTORY = [CHAT_HISTORY[0]] + CHAT_HISTORY[-20:]
TrimHistory(history) ==
    IF Len(history) > TrimThreshold
    THEN <<history[1]>> \o SliceLast(history, KeepLast)
    ELSE history

\* a slip in the routing: the single words of the broader keyword list count too
image_keywords_broad ==
    << <<"d","r","a","w">>,
       <<"d","i","a","g","r","a","m">>,
       <<"f","l","o","w","c","h","a","r","t">>,
       <<"g","e","n","e","r","a","t","e"," ","i","m","a","g","e">> >>

\* image_keywords
image_keywords ==
    << <<"d","r","a","w">>,
       <<"g","e","n","e","r","a","t","e"," ","i","m","a","g","e">>,
       <<"c","r","e","a","t","e"," ","d","i","a","g","r","a","m">>,
       <<"c","r","e","a","t","e"," ","f","l","o","w","c","h","a","r","t">>,
       <<"s","h","o","w"," ","d","i","a","g","r","a","m">>,
       <<"m","a","k","e"," ","f","l","o","w","c","h","a","r","t">> >>

\* a slip in the routing: the question is matched without being lower-cased
IsImageRequestCaseSensitive(question) ==
    \E k \in 1..Len(image_keywords) : Contains(question, image_keywords[k])

\* any(phrase in user_text for phrase in image_keywords), user_text = question.lower()
IsImageRequest(question) ==
    \E k \in 1..Len(image_keywords) : Contains(lower(question), image_keywords[k])

ImageBase == "https://image.pollinations.ai/prompt/"
ImageUrl(question) == <<ImageBase>> \o quote(question)

Response(key, value) == [key |-> key, value |-> value]

----------------------------------------------------------------------------
(* Text extraction of one uploaded file (main.py:115-134) *)

\* An uploaded file: its filename, len(contents), what PdfReader yields page by
\* page and what OCR yields image by image; a page or an image either raises
\* or gives a text.  Reading the upload and writing its copy under uploads/
\* succeed.
UploadFile(filename, size, pages, images) ==
    [filename |-> filename, size |-> size, pages |-> pages, images |-> images]
Gives(text) == [raises |-> FALSE, text |-> text]
Raises == [raises |-> TRUE, text |-> <<>>]

\* try: for page in reader.pages: if extracted: text += extracted + "\n"
\* except: pass
RECURSIVE ExtractPages(_, _)
ExtractPages(pages, text) ==
    IF pages = <<>> THEN text
    ELSE IF Head(pages).raises THEN text
    ELSE ExtractPages(Tail(pages),
                      IF Head(pages).text # <<>>
                      THEN text \o Head(pages).text \o <<"\n">>
                      ELSE text)

\* try: for img in images: text += image_to_string(img)
\* except: return "OCR failed"
RECURSIVE OcrImages(_, _)
OcrImages(images, text) ==
    IF images = <<>> THEN [failed |-> FALSE, text |-> text]
    ELSE IF Head(images).raises THEN [failed |-> TRUE, text |-> text]
    ELSE OcrImages(Tail(images), text \o Head(images).text)

----------------------------------------------------------------------------
(* The per-file loop of upload_pdf (main.py:96-138) *)

PdfSuffix == <<".", "p", "d", "f">>

\* a slip in the upload: the message is noted and the loop goes on (continue
\* for return)
ReturnedContinues(st, message) == [st EXCEPT !.message = message]

Returned(st, message) == [st EXCEPT !.returned = TRUE, !.message = message]

\* a slip in the upload: the text is stored without the text.strip() test
StoreTextUnchecked(st, file, text) ==
    [st EXCEPT !.docs = DictSet(st.docs, lower(file.filename), text),
               !.processed = st.processed + 1,
               !.names = st.names \cup {lower(file.filename)}]

\* if text.strip(): DOCUMENTS[file.filename.lower()] = text; processed += 1
StoreText(st, file, text) ==
    IF strip(text) # <<>>
    THEN [st EXCEPT !.docs = DictSet(st.docs, lower(file.filename), text),
                    !.processed = st.processed + 1,
                    !.names = st.names \cup {lower(file.filename)}]
    ELSE st

\* a slip in the upload: the size test is missing
UploadOneAnySize(st, file) ==
    IF ~endswith(lower(file.filename), PdfSuffix)
    THEN Returned(st, file.filename \o <<" is not a PDF. Only PDF files are accepted.">>)
    ELSE LET direct == ExtractPages(file.pages, <<>>)
         IN  IF strip(direct) = <<>>
             THEN LET ocr == OcrImages(file.images, direct)
                  IN  IF ocr.failed
                      THEN Returned(st, <<"OCR failed for ">> \o file.filename)
                      ELSE StoreText(st, file, ocr.text)
             ELSE StoreText(st, file, direct)

\* one iteration of the loop, on the loop's state st
UploadOne(st, file) ==
    IF ~endswith(lower(file.filename), PdfSuffix)
    THEN Returned(st, file.filename \o <<" is not a PDF. Only PDF files are accepted.">>)
    ELSE IF file.size > MAX_FILE_SIZE
    THEN Returned(st, file.filename \o <<" exceeds the 10MB size limit.">>)
    ELSE LET direct == ExtractPages(file.pages, <<>>)
         IN  IF strip(direct) = <<>>
             THEN LET ocr == OcrImages(file.images, direct)
                  IN  IF ocr.failed
                      THEN Returned(st, <<"OCR failed for ">> \o file.filename)
                      ELSE StoreText(st, file, ocr.text)
             ELSE StoreText(st, file, direct)

\* for file in files: ... (a return inside the loop ends it)
RECURSIVE UploadLoop(_, _)
UploadLoop(st, files) ==
    IF files = <<>> \/ st.returned THEN st
    ELSE UploadLoop(UploadOne(st, Head(files)), Tail(files))

----------------------------------------------------------------------------
(* Request handlers *)

Init ==
    /\ DOCUMENTS = <<>>
    /\ CHAT_HISTORY = <<>>
    /\ pc = "idle"
    /\ response = Response("none", <<>>)
    /\ appended = <<>>
    /\ uploaded = {}

\* GET /files
list_files ==
    /\ response' = Response("files", DictKeys(DOCUMENTS))
    /\ UNCHANGED <<DOCUMENTS, CHAT_HISTORY, pc, appended, uploaded>>

\* POST /clear
clear_history ==
    /\ CHAT_HISTORY' = <<>>
    /\ appended' = <<>>
    /\ response' = Response("message", <<"Chat history cleared">>)
    /\ UNCHANGED <<DOCUMENTS, pc, uploaded>>

\* a slip in the reset: DOCUMENTS = {} is left out
clear_all_keeps_documents ==
    /\ CHAT_HISTORY' = <<>>
    /\ appended' = <<>>
    /\ response' = Response("message", <<"Session fully reset">>)
    /\ UNCHANGED <<DOCUMENTS, pc, uploaded>>

\* POST /clear-all
clear_all ==
    /\ CHAT_HISTORY' = <<>>
    /\ DOCUMENTS' = <<>>
    /\ appended' = <<>>
    /\ uploaded' = {}
    /\ response' = Response("message", <<"Session fully reset">>)
    /\ UNCHANGED pc

\* a slip in the delete: the filename is looked up as given, not lower-cased
delete_file_as_given(filename) ==
    /\ IF DictHas(DOCUMENTS, filename)
       THEN /\ DOCUMENTS' = DictDel(DOCUMENTS, filename)
            /\ response' = Response("message", filename \o <<" deleted successfully">>)
       ELSE /\ DOCUMENTS' = DOCUMENTS
            /\ response' = Response("message", filename \o <<" not found">>)
    /\ UNCHANGED <<CHAT_HISTORY, pc, appended, uploaded>>

\* DELETE /delete/{filename}
delete_file(filename) ==
    LET key == lower(filename)
    IN  /\ IF DictHas(DOCUMENTS, key)
           THEN /\ DOCUMENTS' = DictDel(DOCUMENTS, key)
                /\ response' = Response("message", filename \o <<" deleted successfully">>)
           ELSE /\ DOCUMENTS' = DOCUMENTS
                /\ response' = Response("message", filename \o <<" not found">>)
        /\ UNCHANGED <<CHAT_HISTORY, pc, appended, uploaded>>

\* a slip in the upload: CHAT_HISTORY = [] is done before the loop, so that an
\* early return empties the log too
upload_pdf_clears_first(files) ==
    LET end == UploadLoop([docs |-> DOCUMENTS, processed |-> 0, returned |-> FALSE,
                           message |-> <<>>, names |-> uploaded], files)
    IN  /\ DOCUMENTS' = end.docs
        /\ uploaded' = end.names
        /\ CHAT_HISTORY' = <<>>
        /\ appended' = <<>>
        /\ response' = Response("message",
                            IF end.returned THEN end.message
                            ELSE str(end.processed) \o <<" file(s) processed successfully">>)
        /\ UNCHANGED pc

\* POST /upload
upload_pdf(files) ==
    LET end == UploadLoop([docs |-> DOCUMENTS, processed |-> 0, returned |-> FALSE,
                           message |-> <<>>, names |-> uploaded], files)
    IN  /\ DOCUMENTS' = end.docs
        /\ uploaded' = end.names
        /\ IF end.returned
           THEN /\ UNCHANGED <<CHAT_HISTORY, appended>>
                /\ response' = Response("message", end.message)
           ELSE /\ CHAT_HISTORY' = <<>>
                /\ appended' = <<>>
                /\ response' = Response("message",
                                   str(end.processed) \o <<" file(s) processed successfully">>)
        /\ UNCHANGED pc

\* POST /ask, up to the call of the completion service (main.py:155-198)
ask_ai(question) ==
    /\ pc = "idle"
    /\ IF IsImageRequest(question)
       THEN /\ response' = Response("image", ImageUrl(question))
            /\ UNCHANGED <<DOCUMENTS, CHAT_HISTORY, pc, appended, uploaded>>
       ELSE LET system_prompt == SystemPrompt(CombinedText(DOCUMENTS))
                user == Turn("user", question)
            IN  /\ CHAT_HISTORY' =
                       TrimHistory(Append(UpsertSystem(CHAT_HISTORY, system_prompt), user))
                /\ appended' = Append(appended, user)
                /\ pc' = "calling"
                /\ UNCHANGED <<DOCUMENTS, response, uploaded>>

\* a slip in the handler: the reply is put before the last turn of the log
SaveReplyBeforeLast(history, answer) ==
    IF history = <<>>
    THEN <<Turn("assistant", answer)>>
    ELSE Append(SubSeq(history, 1, Len(history) - 1), Turn("assistant", answer))
             \o <<history[Len(history)]>>

\* the completion service returns: the reply is appended (main.py:203-208)
SaveReply(history, answer) == Append(history, Turn("assistant", answer))

completion_returns(answer) ==
    /\ pc = "calling"
    /\ CHAT_HISTORY' = SaveReply(CHAT_HISTORY, answer)
    /\ appended' = Append(appended, Turn("assistant", answer))
    /\ response' = Response("answer", answer)
    /\ pc' = "idle"
    /\ UNCHANGED <<DOCUMENTS, uploaded>>

\* a slip in the handler: the exception leaves ask_ai and becomes an error response
ErrorPropagates(e) == Response("error", e)

\* the completion service raises: except Exception as e (main.py:210-211)
ErrorAnswer(e) == Response("answer", <<"Error: ">> \o e)

\* a slip in the handler: the except branch takes the user turn back
completion_raises_rolls_back(e) ==
    /\ pc = "calling"
    /\ CHAT_HISTORY' = SubSeq(CHAT_HISTORY, 1, Len(CHAT_HISTORY) - 1)
    /\ appended' = SubSeq(appended, 1, Len(appended) - 1)
    /\ response' = ErrorAnswer(e)
    /\ pc' = "idle"
    /\ UNCHANGED <<DOCUMENTS, uploaded>>

completion_raises(e) ==
    /\ pc = "calling"
    /\ response' = ErrorAnswer(e)
    /\ pc' = "idle"
    /\ UNCHANGED <<DOCUMENTS, CHAT_HISTORY, appended, uploaded>>

----------------------------------------------------------------------------
(* Requests of the model *)

NameA == <<"A", ".", "p", "d", "f">>
NameAUpper == <<"a", ".", "P", "D", "F">>
NameB == <<"b", ".", "p", "d", "f">>
NameC == <<"c", ".", "p", "d", "f">>
NameTxt == <<"n", ".", "t", "x", "t">>
\* the key of A.pdf and of a.PDF
KeyA == <<"a", ".", "p", "d", "f">>

\* a PDF with a text layer
FileA == UploadFile(NameA, 3, <<Gives(<<"x">>)>>, <<>>)
\* the same name in another case, with another text on two pages
FileAUpper == UploadFile(NameAUpper, 3, <<Gives(<<"y">>), Gives(<<>>), Gives(<<"y">>)>>, <<>>)
\* a scanned PDF of exactly the size limit: no usable text layer, OCR reads it
FileB == UploadFile(NameB, MAX_FILE_SIZE, <<Gives(<<" ">>)>>, <<Gives(<<"z">>)>>)
\* a PDF without any text: nothing to extract, nothing recognised
FileBlank == UploadFile(NameC, 3, <<Gives(<<>>)>>, <<Gives(<<" ">>), Gives(<<"\n">>)>>)
\* a corrupt PDF: the parser raises and so does the rasterizer
FileCorrupt == UploadFile(NameC, 3, <<Raises>>, <<Raises>>)
\* one byte over the size limit, under the name of the scanned PDF
FileOversize == UploadFile(NameB, MAX_FILE_SIZE + 1, <<Gives(<<"x">>)>>, <<>>)
\* not a PDF
FileTxt == UploadFile(NameTxt, 3, <<Gives(<<"x">>)>>, <<>>)
Files == {FileA, FileAUpper, FileB, FileBlank, FileCorrupt, FileOversize, FileTxt}
FilesLong == {FileA, FileTxt}

Batches(files) == UNION {[1..n -> files] : n \in 1..MaxBatch}

DeleteNames == {NameA, NameAUpper, NameB}
DeleteNamesLong == {NameA}

\* "hi?"
QPlain == <<"h", "i", "?">>
\* "Draw x"
QDraw == <<"D", "r", "a", "w", " ", "x">>

Questions == {QPlain, QDraw}
QuestionsLong == {QPlain, QDraw}

Answers == {<<"o", "k">>}
Errors == {<<"timeout">>}

----------------------------------------------------------------------------
(* Specifications: the requests are executed one at a time *)

Idle == pc = "idle"

Next ==
    \/ Idle /\ list_files
    \/ Idle /\ clear_history
    \/ Idle /\ clear_all
    \/ \E filename \in DeleteNames : Idle /\ delete_file(filename)
    \/ \E files \in Batches(Files) : Idle /\ upload_pdf(files)
    \/ \E question \in Questions :
           /\ IsImageRequest(question) \/ Len(appended) < MaxTurns
           /\ ask_ai(question)
    \/ \E answer \in Answers : completion_returns(answer)
    \/ \E e \in Errors : completion_raises(e)

Spec == Init /\ [][Next]_vars

\* few kinds of request, every completion call succeeds, and enough asks to
\* pass the trim limit several times
NextLong ==
    \/ Idle /\ list_files
    \/ Idle /\ clear_history
    \/ Idle /\ clear_all
    \/ \E filename \in DeleteNamesLong : Idle /\ delete_file(filename)
    \/ \E files \in Batches(FilesLong) : Idle /\ upload_pdf(files)
    \/ \E question \in QuestionsLong :
           /\ IsImageRequest(question) \/ Len(appended) < MaxTurnsLong
           /\ ask_ai(question)
    \/ \E answer \in Answers : completion_returns(answer)

SpecLong == Init /\ [][NextLong]_vars

\* The context assembly on large stores: the store is drawn from the stores of
\* up to MaxDocs documents with texts of 1, LongLen and HugeLen characters,
\* and one question is asked.
Repeat(c, n) == SubSeq([i \in 1..n |-> c], 1, n)
MaterialDocs ==
    {[key |-> d[1], text |-> Repeat(d[2], n)] :
        d \in {<<KeyA, "x">>, <<NameB, "y">>, <<NameC, "z">>}, n \in {1, LongLen, HugeLen}}
MaterialStores ==
    UNION {{docs \in [1..n -> MaterialDocs] :
                \A i, j \in 1..n : docs[i].key = docs[j].key => i = j} : n \in 0..MaxDocs}

InitMaterial ==
    /\ DOCUMENTS \in MaterialStores
    /\ CHAT_HISTORY = <<>>
    /\ pc = "idle"
    /\ response = Response("none", <<>>)
    /\ appended = <<>>
    /\ uploaded = {DOCUMENTS[i].key : i \in 1..Len(DOCUMENTS)}

NextMaterial ==
    \/ \E question \in Questions : appended = <<>> /\ ask_ai(question)
    \/ \E answer \in Answers : completion_returns(answer)
    \/ \E e \in Errors : completion_raises(e)

SpecMaterial == InitMaterial /\ [][NextMaterial]_vars

\* The completion service answers or fails every call: it returns or raises.
Completion ==
    \/ \E answer \in Answers : completion_returns(answer)
    \/ \E e \in Errors : completion_raises(e)

SpecLive == Init /\ [][Next]_vars /\ WF_vars(Completion)

----------------------------------------------------------------------------
(* The routing of questions: one ask at a time on an empty store *)

\* the six phrases of the routing, two of them also capitalised
KeywordPhrases ==
    { <<"d", "r", "a", "w">>,
      <<"D", "r", "a", "w">>,
      <<"g", "e", "n", "e", "r", "a", "t", "e", " ", "i", "m", "a", "g", "e">>,
      <<"c", "r", "e", "a", "t", "e", " ", "d", "i", "a", "g", "r", "a", "m">>,
      <<"c", "r", "e", "a", "t", "e", " ", "f", "l", "o", "w", "c", "h", "a", "r", "t">>,
      <<"s", "h", "o", "w", " ", "d", "i", "a", "g", "r", "a", "m">>,
      <<"S", "h", "o", "w", " ", "D", "i", "a", "g", "r", "a", "m">>,
      <<"m", "a", "k", "e", " ", "f", "l", "o", "w", "c", "h", "a", "r", "t">> }
\* wordings that name a picture without any of the six phrases
TopicPhrases ==
    { <<"d", "i", "a", "g", "r", "a", "m">>,
      <<"f", "l", "o", "w", "c", "h", "a", "r", "t">>,
      <<"i", "m", "a", "g", "e">>,
      <<"c", "r", "e", "a", "t", "e", " ", "a", " ", "d", "i", "a", "g", "r", "a", "m">>,
      <<"g", "e", "n", "e", "r", "a", "t", "e", " ", "a", "n", " ", "i", "m", "a", "g", "e">>,
      <<"d", "r", "a", " ", "w">>,
      <<"s", "h", "o", "w", " ", " ", "d", "i", "a", "g", "r", "a", "m">>,
      <<"m", "a", "k", "e", "f", "l", "o", "w", "c", "h", "a", "r", "t">> }
\* what stands before and after the phrase: nothing, or "re" before it and
\* " x" after it
PhraseBefore == {<<>>, <<"r", "e">>}
PhraseAfter == {<<>>, <<" ", "x">>}
Around(phrases) ==
    {before \o phrase \o after :
        before \in PhraseBefore, phrase \in phrases, after \in PhraseAfter}
KeywordQuestions == Around(KeywordPhrases)
TopicQuestions == Around(TopicPhrases)
RouterQuestions == KeywordQuestions \cup TopicQuestions

NextRouter ==
    \/ \E question \in RouterQuestions : appended = <<>> /\ ask_ai(question)
    \/ \E answer \in Answers : completion_returns(answer)
    \/ \E e \in Errors : completion_raises(e)

SpecRouter == Init /\ [][NextRouter]_vars

----------------------------------------------------------------------------
(* Requests that overlap an ask: list, delete, clear, clear-all and upload are
   served while an ask waits for the completion service (the sync handlers run on worker
   threads, upload_pdf on the event loop, and nothing locks CHAT_HISTORY) *)

NextReset ==
    \/ list_files
    \/ \E filename \in DeleteNamesLong : delete_file(filename)
    \/ clear_history
    \/ clear_all
    \/ \E files \in Batches(FilesLong) : upload_pdf(files)
    \/ \E question \in Questions :
           /\ IsImageRequest(question) \/ Len(appended) < MaxTurns
           /\ ask_ai(question)
    \/ \E answer \in Answers : completion_returns(answer)
    \/ \E e \in Errors : completion_raises(e)

SpecReset == Init /\ [][NextReset]_vars

----------------------------------------------------------------------------
(* Two asks that overlap: ask_ai is a sync handler, so two requests run on two
   worker threads and their statements on CHAT_HISTORY interleave; nothing
   locks it.  Each request is taken statement by statement (main.py:185-206),
   the test of an if apart from its branch and the right-hand side of the
   trim apart from its assignment. *)

Threads == {1, 2}
Other(t) == 3 - t

\* "why?"
QWhy == <<"w", "h", "y", "?">>
\* the question of each request
QuestionOf == <<QPlain, QWhy>>

\* the completion service's reply to a question: "re:" and the question
AnswerTo(question) == <<"r", "e", ":">> \o question

\* a request: where it is, what its test of `not CHAT_HISTORY` gave, the list
\* it built for the trim, and (history) whether it ran while the other did
Thread(at, empty, kept, overlapped) ==
    [at |-> at, empty |-> empty, kept |-> kept, overlapped |-> overlapped]
InFlight(thread) == thread.at \notin {"idle", "done"}
Goto(thread, at) == [thread EXCEPT !.at = at]

\* the log after k asks of "hi?" served one at a time, and the dialogue turns
\* appended by them
RECURSIVE LogAfter(_)
LogAfter(k) ==
    IF k = 0 THEN <<>>
    ELSE SaveReply(TrimHistory(Append(UpsertSystem(LogAfter(k - 1),
                                                   SystemPrompt(CombinedText(<<>>))),
                                      Turn("user", QPlain))),
                   AnswerTo(QPlain))
RECURSIVE AppendedAfter(_)
AppendedAfter(k) ==
    IF k = 0 THEN <<>>
    ELSE AppendedAfter(k - 1)
             \o <<Turn("user", QPlain), Turn("assistant", AnswerTo(QPlain))>>

InitOverlap ==
    \E k \in 0..MaxStartAsks :
        /\ DOCUMENTS = <<>>
        /\ CHAT_HISTORY = LogAfter(k)
        /\ appended = AppendedAfter(k)
        /\ response = IF k = 0 THEN Response("none", <<>>)
                      ELSE Response("answer", AnswerTo(QPlain))
        /\ uploaded = {}
        /\ pc = [t \in Threads |-> Thread("idle", FALSE, <<>>, FALSE)]

\* the request arrives: routing and system prompt (main.py:155-183)
ask_begins(t) ==
    /\ pc[t].at = "idle"
    /\ IF IsImageRequest(QuestionOf[t])
       THEN /\ response' = Response("image", ImageUrl(QuestionOf[t]))
            /\ pc' = [pc EXCEPT ![t] = Goto(@, "done")]
       ELSE /\ response' = response
            /\ pc' = IF InFlight(pc[Other(t)])
                     THEN [u \in Threads |-> [Goto(pc[u], IF u = t THEN "test" ELSE pc[u].at)
                                                  EXCEPT !.overlapped = TRUE]]
                     ELSE [pc EXCEPT ![t] = Goto(@, "test")]
    /\ UNCHANGED <<DOCUMENTS, CHAT_HISTORY, appended, uploaded>>

\* if not CHAT_HISTORY: (main.py:186)
ask_tests_empty(t) ==
    /\ pc[t].at = "test"
    /\ pc' = [pc EXCEPT ![t] = [Goto(@, "upsert") EXCEPT !.empty = (CHAT_HISTORY = <<>>)]]
    /\ UNCHANGED <<DOCUMENTS, CHAT_HISTORY, response, appended, uploaded>>

\* CHAT_HISTORY.append(system) or CHAT_HISTORY[0] = system (main.py:187, 189);
\* the assignment to index 0 of an empty list raises IndexError
ask_upserts(t) ==
    LET system == Turn("system", SystemPrompt(CombinedText(DOCUMENTS)))
    IN  /\ pc[t].at = "upsert"
        /\ IF pc[t].empty
           THEN /\ CHAT_HISTORY' = Append(CHAT_HISTORY, system)
                /\ pc' = [pc EXCEPT ![t] = Goto(@, "append")]
                /\ response' = response
           ELSE IF CHAT_HISTORY = <<>>
           THEN /\ CHAT_HISTORY' = CHAT_HISTORY
                /\ pc' = [pc EXCEPT ![t] = Goto(@, "done")]
                /\ response' = ErrorAnswer(<<"list assignment index out of range">>)
           ELSE /\ CHAT_HISTORY' = [CHAT_HISTORY EXCEPT ![1] = system]
                /\ pc' = [pc EXCEPT ![t] = Goto(@, "append")]
                /\ response' = response
        /\ UNCHANGED <<DOCUMENTS, appended, uploaded>>

\* CHAT_HISTORY.append(user) (main.py:192)
ask_appends_user(t) ==
    /\ pc[t].at = "append"
    /\ CHAT_HISTORY' = Append(CHAT_HISTORY, Turn("user", QuestionOf[t]))
    /\ appended' = Append(appended, Turn("user", QuestionOf[t]))
    /\ pc' = [pc EXCEPT ![t] = Goto(@, "trim")]
    /\ UNCHANGED <<DOCUMENTS, response, uploaded>>

\* if len(CHAT_HISTORY) > 21: (main.py:195)
ask_tests_length(t) ==
    /\ pc[t].at = "trim"
    /\ pc' = [pc EXCEPT ![t] = Goto(@, IF Len(CHAT_HISTORY) > TrimThreshold
                                       THEN "build" ELSE "call")]
    /\ UNCHANGED <<DOCUMENTS, CHAT_HISTORY, response, appended, uploaded>>

\* [CHAT_HISTORY[0]] + CHAT_HISTORY[-20:] is built (main.py:196, right-hand side)
ask_builds_trimmed(t) ==
    /\ pc[t].at = "build"
    /\ pc' = [pc EXCEPT ![t] = [Goto(@, "rebind") EXCEPT
                                    !.kept = <<CHAT_HISTORY[1]>>
                                                 \o SliceLast(CHAT_HISTORY, KeepLast)]]
    /\ UNCHANGED <<DOCUMENTS, CHAT_HISTORY, response, appended, uploaded>>

\* CHAT_HISTORY = the list built (main.py:196, assignment)
ask_rebinds(t) ==
    /\ pc[t].at = "rebind"
    /\ CHAT_HISTORY' = pc[t].kept
    /\ pc' = [pc EXCEPT ![t] = [Goto(@, "call") EXCEPT !.kept = <<>>]]
    /\ UNCHANGED <<DOCUMENTS, response, appended, uploaded>>

\* the completion call returns and the reply is appended (main.py:198-208)
ask_returns(t) ==
    /\ pc[t].at = "call"
    /\ CHAT_HISTORY' = SaveReply(CHAT_HISTORY, AnswerTo(QuestionOf[t]))
    /\ appended' = Append(appended, Turn("assistant", AnswerTo(QuestionOf[t])))
    /\ response' = Response("answer", AnswerTo(QuestionOf[t]))
    /\ pc' = [pc EXCEPT ![t] = Goto(@, "done")]
    /\ UNCHANGED <<DOCUMENTS, uploaded>>

\* the completion call raises (main.py:210-211)
ask_fails(t, e) ==
    /\ pc[t].at = "call"
    /\ response' = ErrorAnswer(e)
    /\ pc' = [pc EXCEPT ![t] = Goto(@, "done")]
    /\ UNCHANGED <<DOCUMENTS, CHAT_HISTORY, appended, uploaded>>

NextOverlap ==
    \/ \E t \in Threads : ask_begins(t)
    \/ \E t \in Threads : ask_tests_empty(t)
    \/ \E t \in Threads : ask_upserts(t)
    \/ \E t \in Threads : ask_appends_user(t)
    \/ \E t \in Threads : ask_tests_length(t)
    \/ \E t \in Threads : ask_builds_trimmed(t)
    \/ \E t \in Threads : ask_rebinds(t)
    \/ \E t \in Threads : ask_returns(t)
    \/ \E t \in Threads, e \in Errors : ask_fails(t, e)

SpecOverlap == InitOverlap /\ [][NextOverlap]_vars

----------------------------------------------------------------------------
(* Claims about the conversation log *)

IsSystem(turn) == turn.role = "system"

\* C1: in every reachable state the conversation log holds at most 21 turns,
\* the system turn and 20 dialogue turns, also after the reply of an ask has
\* been appended.
C1_LogAtMost21 == Len(CHAT_HISTORY) <= 21

\* C2: once more than 20 dialogue turns have been appended since the last
\* reset, the log after a completed ask is the system turn followed by exactly
\* the 20 most recently appended dialogue turns, in the order of appending.
C2_KeepsLast20 ==
    (pc = "idle" /\ Len(appended) > 20)
        => /\ CHAT_HISTORY # <<>>
           /\ IsSystem(CHAT_HISTORY[1])
           /\ Tail(CHAT_HISTORY) = SubSeq(appended, Len(appended) - 19, Len(appended))

\* C3: a non-empty log has a system turn at position 0 and no system turn at
\* any later position.
C3_SystemTurnFirstAndOnly ==
    CHAT_HISTORY # <<>>
        => /\ IsSystem(CHAT_HISTORY[1])
           /\ \A i \in 2..Len(CHAT_HISTORY) : ~IsSystem(CHAT_HISTORY[i])

\* C3 witness: the log has been trimmed twice and a reply appended after it
C3_Witness ==
    /\ pc = "idle"
    /\ Len(appended) >= 24
    /\ Len(CHAT_HISTORY) > TrimThreshold
    /\ IsSystem(CHAT_HISTORY[1])
    /\ CHAT_HISTORY[Len(CHAT_HISTORY)].role = "assistant"

\* C4: an ask routed to Image returns {image: url} and leaves the conversation
\* log and the document store as they were, and calls no completion: so does
\* the ask of "Draw x", whose url ends in Draw%20x.
C4_ImageAskTouchesNothing ==
    [][ /\ ask_ai(QDraw)
            => response' = Response("image",
                               <<ImageBase, "D", "r", "a", "w", "%", "2", "0", "x">>)
        /\ \A question \in Questions :
               (ask_ai(question) /\ (question = QDraw \/ IsImageRequest(question)))
                   => /\ response'.key = "image"
                      /\ UNCHANGED <<CHAT_HISTORY, DOCUMENTS, pc, appended>> ]_vars

\* C4 witness: an image has been returned while the log and the store held something
C4_Witness ==
    /\ response.key = "image"
    /\ pc = "idle"
    /\ Len(CHAT_HISTORY) >= 3
    /\ DOCUMENTS # <<>>

----------------------------------------------------------------------------
(* Claims about the system turn and the store *)

\* C5 as stated: whenever the log is non-empty, the study material in turn 0 is
\* the combined text of the documents now in the store.
C5_SystemTurnAlwaysCurrent ==
    CHAT_HISTORY # <<>>
        => StudyMaterialOf(CHAT_HISTORY[1].content) = CombinedText(DOCUMENTS)

\* C5 amended: at every completion call the log starts with the system turn
\* built from the documents now in the store, and its study material is empty
\* when the store is empty.
C5_SystemTurnCurrentAtCompletion ==
    pc = "calling"
        => /\ CHAT_HISTORY[1] = Turn("system", SystemPrompt(CombinedText(DOCUMENTS)))
           /\ DOCUMENTS = <<>> => StudyMaterialOf(CHAT_HISTORY[1].content) = <<>>

\* C5 witness: a later ask of a conversation, after every uploaded document
\* has been deleted
C5_Witness ==
    /\ pc = "calling"
    /\ Len(CHAT_HISTORY) >= 3
    /\ DOCUMENTS = <<>>
    /\ uploaded # {}

\* an upload whose loop ran to its end
UploadCompleted ==
    \E files \in Batches(Files) :
        /\ upload_pdf(files)
        /\ response'.value[Len(response'.value)] = " file(s) processed successfully"

\* C6 as stated: only clear and clear-all take a non-empty log to the empty log.
C6_OnlyResetsEmpty ==
    [][ (CHAT_HISTORY # <<>> /\ CHAT_HISTORY' = <<>>)
            => (clear_history \/ clear_all) ]_vars

\* C6 amended: only clear, clear-all and an upload whose loop ran to its end
\* take a non-empty log to the empty log; every other step either keeps the
\* dialogue turns and appends to them, or trims a log that passed 21 turns.
C6_ResetsAndUploadsEmpty ==
    [][ CHAT_HISTORY # <<>>
            => \/ /\ CHAT_HISTORY' = <<>>
                  /\ clear_history \/ clear_all \/ UploadCompleted
               \/ /\ Len(CHAT_HISTORY') >= Len(CHAT_HISTORY)
                  /\ SubSeq(CHAT_HISTORY', 2, Len(CHAT_HISTORY)) = Tail(CHAT_HISTORY)
               \/ /\ Len(CHAT_HISTORY) + 1 > TrimThreshold
                  /\ Len(CHAT_HISTORY') = TrimThreshold ]_vars

\* C6 witness: an upload that returned early has left a trimmed log in place
C6_Witness ==
    /\ Len(CHAT_HISTORY) > TrimThreshold
    /\ Len(appended) >= 24
    /\ response.key = "message"
    /\ response.value = NameTxt \o <<" is not a PDF. Only PDF files are accepted.">>

----------------------------------------------------------------------------
(* Claims about the document store *)

EntriesOf(docs, key) == {i \in 1..Len(docs) : docs[i].key = key}

\* C7: keys are stored lower-cased and an upload overwrites: uploading A.pdf
\* and then a.PDF, in one batch or in two requests, leaves one entry a.pdf
\* with the text of the later file; no key occurs twice, and there are never
\* more entries than distinct lower-cased names stored.
C7_LastWriteWins ==
    [][ /\ (upload_pdf(<<FileA, FileAUpper>>) \/ upload_pdf(<<FileAUpper>>))
            => /\ Cardinality(EntriesOf(DOCUMENTS', KeyA)) = 1
               /\ DictGet(DOCUMENTS', KeyA) = <<"y", "\n", "y", "\n">>
               /\ Len(DOCUMENTS') = Len(DOCUMENTS) + (IF DictHas(DOCUMENTS, KeyA) THEN 0 ELSE 1)
        /\ (upload_pdf(<<FileAUpper, FileA>>) \/ upload_pdf(<<FileA>>))
            => /\ Cardinality(EntriesOf(DOCUMENTS', KeyA)) = 1
               /\ DictGet(DOCUMENTS', KeyA) = <<"x", "\n">>
               /\ Len(DOCUMENTS') = Len(DOCUMENTS) + (IF DictHas(DOCUMENTS, KeyA) THEN 0 ELSE 1)
        /\ \A i \in 1..Len(DOCUMENTS') :
               /\ DOCUMENTS'[i].key = lower(DOCUMENTS'[i].key)
               /\ EntriesOf(DOCUMENTS', DOCUMENTS'[i].key) = {i}
        /\ Len(DOCUMENTS') <= Cardinality(uploaded') ]_vars

\* C7 witness: both files of a batch were stored, into a single entry
C7_Witness ==
    /\ response = Response("message", <<"2", " file(s) processed successfully">>)
    /\ Len(DOCUMENTS) = 1
    /\ uploaded = {KeyA}
    /\ DictGet(DOCUMENTS, KeyA) = <<"y", "\n", "y", "\n">>

\* C8: every text in the store has a character that is not whitespace.
C8_StoredTextNotBlank ==
    \A i \in 1..Len(DOCUMENTS) :
        \E j \in 1..Len(DOCUMENTS[i].text) : DOCUMENTS[i].text[j] \notin Whitespace

\* C8 witness: an upload of files without usable text ran to its end, stored
\* nothing and left the earlier documents in the store
C8_Witness ==
    /\ response = Response("message", <<"0", " file(s) processed successfully">>)
    /\ Len(DOCUMENTS) = 2
    /\ ~DictHas(DOCUMENTS, NameC)

----------------------------------------------------------------------------
(* Claims about the study material *)

\* where the text of document i starts in the full join, less one
RECURSIVE JoinOffset(_, _)
JoinOffset(docs, i) ==
    IF i = 1 THEN 0 ELSE JoinOffset(docs, i - 1) + Len(docs[i - 1].text) + 2

\* the length of the full join: the texts and a blank line between neighbours
JoinLen(docs) ==
    IF docs = <<>> THEN 0 ELSE JoinOffset(docs, Len(docs)) + Len(docs[Len(docs)].text)

\* character p of the full join: a character of a text, or of a separator
JoinChar(docs, p) ==
    IF \E i \in 1..Len(docs) : JoinOffset(docs, i) < p /\ p <= JoinOffset(docs, i) + Len(docs[i].text)
    THEN LET i == CHOOSE i \in 1..Len(docs) :
                      JoinOffset(docs, i) < p /\ p <= JoinOffset(docs, i) + Len(docs[i].text)
         IN  docs[i].text[p - JoinOffset(docs, i)]
    ELSE "\n"

\* C9: the study material of an ask, which the system prompt holds between its
\* rules and its last character, is the first min(12000, length) characters of
\* the store's texts joined in store order with a blank line between them, and
\* it is empty when the store is empty.
C9_MaterialIsCutJoin ==
    pc = "calling"
        => /\ Len(CHAT_HISTORY[1].content) = Min(12000, JoinLen(DOCUMENTS)) + 2
           /\ \A p \in 1..Min(12000, JoinLen(DOCUMENTS)) :
                  CHAT_HISTORY[1].content[p + 1] = JoinChar(DOCUMENTS, p)
           /\ DOCUMENTS = <<>> => StudyMaterialOf(CHAT_HISTORY[1].content) = <<>>

\* C9 witness: three documents whose join is longer than 12000 characters, cut
\* inside the second text
C9_Witness ==
    /\ pc = "calling"
    /\ Len(DOCUMENTS) = 3
    /\ JoinLen(DOCUMENTS) > 12000
    /\ Len(DOCUMENTS[1].text) < 12000
    /\ Len(StudyMaterialOf(CHAT_HISTORY[1].content)) = 12000
    /\ JoinOffset(DOCUMENTS, 3) > 12000

----------------------------------------------------------------------------
(* Claims about the result of an ask *)

\* C10: every ask ends, and it ends with {image: url} or {answer: text}: a
\* question routed to Image ends at once with an image, a completion call
\* ends with an answer, and a failed completion call ends with the answer
\* "Error: <message>".
C10_AskEndsWithImageOrAnswer ==
    /\ [][ /\ (\E question \in Questions : ask_ai(question) /\ pc' = "idle")
               => (response'.key = "image" /\ response'.value[1] = ImageBase)
           /\ (pc = "calling" /\ pc' = "idle") => response'.key = "answer"
           /\ \A e \in Errors :
                  completion_raises(e) => response' = Response("answer", <<"Error: ">> \o e)
           /\ (pc = "calling" /\ pc' = "calling") => UNCHANGED vars ]_vars
    /\ (pc = "calling") ~> (pc = "idle" /\ response.key = "answer")

\* C10 witness: a completion call has failed and the ask has returned the
\* error as an answer
C10_Witness ==
    /\ pc = "idle"
    /\ response = Response("answer", <<"Error: ", "timeout">>)
    /\ Len(appended) = 2
    /\ appended[2].role = "user"

----------------------------------------------------------------------------
(* Claims about the upload's rejections *)

NotPdfMessage(filename) ==
    Response("message", filename \o <<" is not a PDF. Only PDF files are accepted.">>)
TooLargeMessage(filename) ==
    Response("message", filename \o <<" exceeds the 10MB size limit.">>)

\* the entry of key is the same before and after the step
EntryUnchanged(key) ==
    /\ DictHas(DOCUMENTS', key) <=> DictHas(DOCUMENTS, key)
    /\ DictHas(DOCUMENTS, key) => DictGet(DOCUMENTS', key) = DictGet(DOCUMENTS, key)

\* C11: a file of a batch whose name does not end in .pdf, or whose size is
\* over 10 MB, is rejected with a message and never adds or replaces an entry
\* of the store: n.txt is never a key, the entry of b.pdf never holds the text
\* of the oversized b.pdf, and an upload of such a file alone, or after a valid
\* file, answers with the rejection and leaves the entry of its name as it was.
C11_RejectedFileNeverStored ==
    [][ /\ ~DictHas(DOCUMENTS', NameTxt)
        /\ DictHas(DOCUMENTS', NameB) => DictGet(DOCUMENTS', NameB) = <<" ", "\n", "z">>
        /\ upload_pdf(<<FileTxt>>)
               => /\ response' = NotPdfMessage(NameTxt)
                  /\ UNCHANGED <<DOCUMENTS, CHAT_HISTORY>>
        /\ upload_pdf(<<FileOversize>>)
               => /\ response' = TooLargeMessage(NameB)
                  /\ UNCHANGED <<DOCUMENTS, CHAT_HISTORY>>
        /\ upload_pdf(<<FileA, FileOversize>>)
               => /\ response' = TooLargeMessage(NameB)
                  /\ EntryUnchanged(NameB)
                  /\ DictGet(DOCUMENTS', KeyA) = <<"x", "\n">> ]_vars

\* C11 witness: the oversized b.pdf has been rejected while the store held the
\* scanned b.pdf
C11_Witness ==
    /\ response = TooLargeMessage(NameB)
    /\ DictHas(DOCUMENTS, NameB)
    /\ DictGet(DOCUMENTS, NameB) = <<" ", "\n", "z">>

\* C12: when OCR fails for one file of a batch, the failure is reported for
\* that file and the batch continues: every later valid PDF of the batch is
\* still processed and stored.  So the upload of the corrupt c.pdf followed by
\* A.pdf stores the text of A.pdf under a.pdf.
C12_BatchContinuesAfterOcrFailure ==
    [][ upload_pdf(<<FileCorrupt, FileA>>)
            => /\ DictHas(DOCUMENTS', KeyA)
               /\ DictGet(DOCUMENTS', KeyA) = <<"x", "\n">> ]_vars

----------------------------------------------------------------------------
(* Claims about delete and the resets *)

\* the entries of the store other than that of key are the same, in the same
\* order, before and after the step
OthersUnchanged(key) ==
    LET Others(docs) == {i \in 1..Len(docs) : docs[i].key # key}
    IN  /\ Cardinality(Others(DOCUMENTS')) = Cardinality(Others(DOCUMENTS))
        /\ \A i \in Others(DOCUMENTS) :
               /\ DictHas(DOCUMENTS', DOCUMENTS[i].key)
               /\ DictGet(DOCUMENTS', DOCUMENTS[i].key) = DOCUMENTS[i].text

\* a delete of filename, whose lower-cased form is key, is a step as the claim
\* describes it
DeletesOnly(filename, key) ==
    delete_file(filename)
        => /\ ~DictHas(DOCUMENTS', key)
           /\ OthersUnchanged(key)
           /\ UNCHANGED CHAT_HISTORY
           /\ IF DictHas(DOCUMENTS, key)
              THEN /\ Len(DOCUMENTS') = Len(DOCUMENTS) - 1
                   /\ response' = Response("message", filename \o <<" deleted successfully">>)
              ELSE /\ DOCUMENTS' = DOCUMENTS
                   /\ response' = Response("message", filename \o <<" not found">>)

\* C13: delete removes exactly the entry whose key is the lower-cased filename
\* (a.pdf for A.pdf and for a.PDF) and no other entry; the delete of an absent
\* document answers 'not found' and leaves the store as it was, so a delete
\* leaves a store on which the same delete changes nothing; no delete changes
\* the conversation log.
C13_DeleteRemovesOneEntry ==
    [][ /\ DeletesOnly(NameA, KeyA)
        /\ DeletesOnly(NameAUpper, KeyA)
        /\ DeletesOnly(NameB, NameB) ]_vars

\* C13 witness: A.pdf has been deleted from a store that keeps b.pdf, with a
\* conversation in the log
C13_Witness ==
    /\ response = Response("message", NameA \o <<" deleted successfully">>)
    /\ DictKeys(DOCUMENTS) = <<NameB>>
    /\ KeyA \in uploaded
    /\ Len(CHAT_HISTORY) = 3

\* C14: clear empties the conversation log and leaves the document store as
\* it was; clear-all empties the log and the store in one step, so that a
\* listing that follows it names no file.
C14_ClearAndClearAll ==
    [][ /\ clear_history => (CHAT_HISTORY' = <<>> /\ DOCUMENTS' = DOCUMENTS)
        /\ clear_all => (CHAT_HISTORY' = <<>> /\ DOCUMENTS' = <<>>)
        /\ (response = Response("message", <<"Session fully reset">>) /\ list_files)
               => response' = Response("files", <<>>)
        /\ (pc' = "idle" /\ response' = Response("message", <<"Chat history cleared">>))
               => CHAT_HISTORY' = <<>> ]_vars

\* C14 witness: the log has been cleared and is empty while both uploaded
\* documents are still stored
C14_Witness ==
    /\ response = Response("message", <<"Chat history cleared">>)
    /\ CHAT_HISTORY = <<>>
    /\ DictKeys(DOCUMENTS) = <<KeyA, NameB>>

----------------------------------------------------------------------------
(* Claims about the routing *)

\* "diagram x": the word diagram, none of the six phrases
QDiagramTopic == <<"d", "i", "a", "g", "r", "a", "m", " ", "x">>
\* "redraw x"
QRedraw == <<"r", "e", "d", "r", "a", "w", " ", "x">>

----------------------------------------------------------------------------
(* Claims about the steps of an ask *)

\* C18: a non-image ask whose completion call succeeds upserts the system
\* turn, appends the user turn, trims, calls the completion service with the
\* whole log and appends the reply: the log given to the service starts with
\* the system turn, ends with the user's question and is already trimmed to
\* at most 21 turns; the reply is appended to that log unchanged, so the last
\* two turns after the request are the question and its reply; from an empty
\* log the length is 2 at the call and 3 after the reply.
C18_AskStepsInOrder ==
    [][ /\ \A question \in QuestionsLong :
               (ask_ai(question) /\ pc' = "calling")
                   => /\ IsSystem(CHAT_HISTORY'[1])
                      /\ CHAT_HISTORY'[Len(CHAT_HISTORY')] = Turn("user", question)
                      /\ Len(CHAT_HISTORY') =
                             Min(Max(Len(CHAT_HISTORY), 1) + 1, TrimThreshold)
                      /\ CHAT_HISTORY = <<>> => Len(CHAT_HISTORY') = 2
        /\ \A answer \in Answers :
               completion_returns(answer)
                   => /\ Len(CHAT_HISTORY') = Len(CHAT_HISTORY) + 1
                      /\ SubSeq(CHAT_HISTORY', 1, Len(CHAT_HISTORY)) = CHAT_HISTORY
                      /\ CHAT_HISTORY'[Len(CHAT_HISTORY')] = Turn("assistant", answer)
                      /\ CHAT_HISTORY'[Len(CHAT_HISTORY') - 1].role = "user"
                      /\ response' = Response("answer", answer)
                      /\ Len(appended) = 1 => Len(CHAT_HISTORY') = 3 ]_vars

\* C18 witness: the first ask of a session has been answered
C18_Witness ==
    /\ pc = "idle"
    /\ response = Response("answer", <<"o", "k">>)
    /\ Len(CHAT_HISTORY) = 3
    /\ IsSystem(CHAT_HISTORY[1])
    /\ CHAT_HISTORY[2] = Turn("user", QPlain)
    /\ CHAT_HISTORY[3] = Turn("assistant", <<"o", "k">>)

TimeoutAnswer == Response("answer", <<"Error: ", "timeout">>)

\* C19: a non-image ask whose completion call fails is not rolled back: the
\* log keeps the refreshed system turn and the user turn, with no assistant
\* turn after it, and the store is as it was; the user turn of the following
\* ask comes right after it, so the log then ends with two user turns.
C19_FailedAskKeepsUserTurn ==
    [][ /\ \A e \in Errors :
               completion_raises(e)
                   => /\ CHAT_HISTORY' = CHAT_HISTORY
                      /\ DOCUMENTS' = DOCUMENTS
                      /\ response'.key = "answer"
        /\ (pc' = "idle" /\ response' = TimeoutAnswer)
               => /\ Len(CHAT_HISTORY') >= 2
                  /\ CHAT_HISTORY'[1] =
                         Turn("system", SystemPrompt(CombinedText(DOCUMENTS')))
                  /\ CHAT_HISTORY'[Len(CHAT_HISTORY')].role = "user"
        /\ (pc = "idle" /\ response = TimeoutAnswer /\ pc' = "calling")
               => /\ CHAT_HISTORY'[Len(CHAT_HISTORY')].role = "user"
                  /\ CHAT_HISTORY'[Len(CHAT_HISTORY') - 1].role = "user"
                  /\ Len(CHAT_HISTORY') = Len(CHAT_HISTORY) + 1 ]_vars

\* C19 witness: the ask after a failed ask is at the completion service, and
\* the log is the system turn and two user turns
C19_Witness ==
    /\ pc = "calling"
    /\ response = TimeoutAnswer
    /\ Len(CHAT_HISTORY) = 3
    /\ IsSystem(CHAT_HISTORY[1])
    /\ CHAT_HISTORY[2] = Turn("user", QPlain)
    /\ CHAT_HISTORY[3] = Turn("user", QPlain)

----------------------------------------------------------------------------
(* Claims about the early returns of an upload *)

OcrFailedMessage(filename) == Response("message", <<"OCR failed for ">> \o filename)

\* the response of an upload that returned from inside its loop
IsEarlyReturn(r) ==
    /\ r.key = "message"
    /\ r.value # <<>>
    /\ \/ r.value[1] = "OCR failed for "
       \/ r.value[Len(r.value)] = " is not a PDF. Only PDF files are accepted."
       \/ r.value[Len(r.value)] = " exceeds the 10MB size limit."

\* the response of an upload whose loop ran to its end
IsProcessed(r) ==
    /\ r.key = "message"
    /\ r.value # <<>>
    /\ r.value[Len(r.value)] = " file(s) processed successfully"

\* C20: an upload empties the conversation log exactly when its per-file loop
\* runs to the end; an upload that returns early, on a file that is not a
\* PDF, is too large or fails in OCR, leaves the log as it was, keeps what
\* the earlier files of the batch stored and processes none of the later ones.
C20_EarlyReturnKeepsLog ==
    [][ /\ (pc = "idle" /\ pc' = "idle" /\ IsEarlyReturn(response'))
               => /\ CHAT_HISTORY' = CHAT_HISTORY
                  /\ \A i \in 1..Len(DOCUMENTS) : DictHas(DOCUMENTS', DOCUMENTS[i].key)
        /\ (pc = "idle" /\ pc' = "idle" /\ IsProcessed(response'))
               => CHAT_HISTORY' = <<>>
        /\ upload_pdf(<<FileA, FileCorrupt>>)
               => /\ response' = OcrFailedMessage(NameC)
                  /\ CHAT_HISTORY' = CHAT_HISTORY
                  /\ DictGet(DOCUMENTS', KeyA) = <<"x", "\n">>
                  /\ EntryUnchanged(NameB)
        /\ upload_pdf(<<FileTxt, FileB>>)
               => /\ response' = NotPdfMessage(NameTxt)
                  /\ UNCHANGED <<CHAT_HISTORY, DOCUMENTS>>
        /\ upload_pdf(<<FileCorrupt, FileAUpper>>)
               => /\ response' = OcrFailedMessage(NameC)
                  /\ UNCHANGED <<CHAT_HISTORY, DOCUMENTS>>
        /\ upload_pdf(<<FileBlank>>)
               => /\ IsProcessed(response')
                  /\ CHAT_HISTORY' = <<>>
                  /\ DOCUMENTS' = DOCUMENTS ]_vars

\* C20 witness: an upload has failed in OCR on c.pdf after storing A.pdf: the
\* log still holds the conversation held on the empty store
C20_Witness ==
    /\ response = OcrFailedMessage(NameC)
    /\ DictKeys(DOCUMENTS) = <<KeyA>>
    /\ Len(CHAT_HISTORY) = 3
    /\ CHAT_HISTORY[1] = Turn("system", SystemPrompt(CombinedText(<<>>)))

----------------------------------------------------------------------------
(* Claims about overlapping requests *)

\* every reply but one at the head of a trimmed log comes right after its own
\* question
RepliesFollowQuestions(log) ==
    \A i \in 3..Len(log) :
        log[i].role = "assistant"
            => /\ log[i - 1].role = "user"
               /\ log[i].content = AnswerTo(log[i - 1].content)

\* the dialogue turns of the log are the most recent of the turns appended
NoTurnLost(log, turns) ==
    log # <<>>
        => /\ Len(log) - 1 <= Len(turns)
           /\ Tail(log) = SubSeq(turns, Len(turns) - Len(log) + 2, Len(turns))

\* C16: the ask pipeline is not safe for overlapping requests.  Two asks
\* served one after the other keep the order of the log: every reply comes
\* right after its own question and the log holds the most recent turns
\* appended.  When their statements interleave, that order can break: it is
\* broken only in runs in which the two requests overlapped, and such runs
\* do break it (a reply after the other request's turn, a user turn dropped
\* by the other request's rebinding of the list).
C16_OrderBrokenOnlyByOverlap ==
    ~(RepliesFollowQuestions(CHAT_HISTORY) /\ NoTurnLost(CHAT_HISTORY, appended))
        => \A t \in Threads : pc[t].overlapped

\* C16 witness: both requests are over, the reply to "hi?" does not follow
\* its question, and the question "why?", appended by the second request, is
\* not in the log: the first request's trim has dropped it
C16_Witness ==
    /\ \A t \in Threads : pc[t].at = "done"
    /\ ~RepliesFollowQuestions(CHAT_HISTORY)
    /\ \E i \in 1..Len(appended) : appended[i] = Turn("user", QWhy)
    /\ \A i \in 1..Len(CHAT_HISTORY) : CHAT_HISTORY[i] # Turn("user", QWhy)

\* C17: the system turn is at position 0 at any time, also when a reset runs
\* while an ask waits for the completion service: when clear, clear-all or a
\* finishing upload empties the log between the user append and the assistant
\* append of an ask, the log after the assistant append still starts with a
\* system turn, so that the next upsert of the system turn overwrites no
\* dialogue turn.
C17_SystemTurnFirstThroughResets ==
    [][ /\ CHAT_HISTORY' # <<>> => CHAT_HISTORY'[1].role = "system"
        /\ \A question \in Questions :
               (ask_ai(question) /\ pc' = "calling")
                   => \A i \in 1..Len(CHAT_HISTORY) :
                          CHAT_HISTORY[i].role # "system"
                              => \E j \in 1..Len(CHAT_HISTORY') :
                                     CHAT_HISTORY'[j] = CHAT_HISTORY[i] ]_vars

====
